---- MODULE Spec2Model ----
(***************************************************************************)
(* State-machine model of CustomResearcher (src/deep-research-trail.py):   *)
(* research() with its per-subcomponent loop _research_subcomponent(), the *)
(* search / crawl / scoring steps, the report assembly and the save step.  *)
(* External collaborators (the OpenAI calls, googlesearch, the crawler,    *)
(* the file system) are nondeterministic: every call picks its outcome     *)
(* from a small set that includes failure.                                 *)
(*                                                                         *)
(* Scores are modelled in tenths: 3 stands for 0.3, 4 for 0.4.             *)
(* A Python dict is a sequence of [key, val] pairs in insertion order.     *)
(* A Python None / unset local is the empty sequence or 0.                 *)
(***************************************************************************)
EXTENDS Integers, Sequences, FiniteSets, TLC

(***************************************************************************)
(* Bounds of the exploration.                                              *)
(***************************************************************************)
MaxMaxLoops == 2      \* config max_loops ranges over 0..MaxMaxLoops
MaxSubtopics == 2     \* longest subcomponent list the decomposition returns
MaxSearches == 2      \* queries generated in one run of research()
MaxCrawls == 3        \* pages crawled in one run of research()

(***************************************************************************)
(* Program constants.                                                      *)
(***************************************************************************)
Threshold == 3        \* report.relevance_score > 0.3
PagesPerQuery == 3    \* urls[:3]

\* self.search_results_per_query = config['search_results_per_query']: the
\* configuration explored asks the search for one result more than is crawled.
search_results_per_query == 4

Query == "X"
Subtopics == {"a", "b"}
Queries == {"q1", "q2"}
Urls == {"u1", "u2"}
Scores == {0, 3, 4}
MissingInfos == {<<"g1">>}

(***************************************************************************)
(* Helpers.                                                                *)
(***************************************************************************)
Range(s) == {s[i] : i \in DOMAIN s}

Min(a, b) == IF a < b THEN a ELSE b

SeqsUpTo(S, n) == UNION {[1..k -> S] : k \in 0..n}

NoDup(s) == \A i, j \in DOMAIN s : i # j => s[i] # s[j]

\* dict[k] = v : an existing key keeps its place, a new key goes last.
DictSet(d, k, v) ==
    IF \E i \in DOMAIN d : d[i].key = k
    THEN [i \in DOMAIN d |-> IF d[i].key = k THEN [key |-> k, val |-> v] ELSE d[i]]
    ELSE Append(d, [key |-> k, val |-> v])

\* [r.url for r in reports]
UrlsOf(reports) == [i \in DOMAIN reports |-> reports[i].url]

RECURSIVE Flatten(_)
\* all_sources: the url lists of all_findings.values(), extended in order.
Flatten(ss) == IF ss = <<>> THEN <<>> ELSE Head(ss) \o Flatten(Tail(ss))

RECURSIVE SumLen(_)
SumLen(ss) == IF ss = <<>> THEN 0 ELSE Len(Head(ss)) + SumLen(Tail(ss))

\* list(set(xs)): the elements of xs once each, in an order the hash decides.
ListOfSet(xs) ==
    {s \in [1..Cardinality(Range(xs)) -> Range(xs)] : Range(s) = Range(xs)}

(***************************************************************************)
(* The decisions of the code, one operator each.                           *)
(***************************************************************************)
\* The while test with the bound read one pass, or two passes, too late.
WhileCondInclusive(lc, ml) == lc <= ml

WhileCondLate(lc, ml) == lc <= ml + 1

\* while loop_count < self.max_loops
WhileCond(lc, ml) == lc < ml

\* The relevance test with a page scored exactly 0.3 admitted.
AdmitAtThreshold(score) == score >= Threshold

\* if report.relevance_score > 0.3
Admit(score) == score > Threshold

\* urls[:3]
TopUrls(us) == SubSeq(us, 1, Min(PagesPerQuery, Len(us)))

\* subcomponents = [query]; replaced by args.get("subcomponents", [query])
\* when the first tool call is decompose_query.
Decomposed(r) ==
    IF r.kind = "ok" /\ r.has_key THEN r.list ELSE <<Query>>

\* The decomposition call raised, made no decompose_query tool call, or its
\* arguments hold no subcomponent.
NoSubcomponents(r) == r.kind # "ok" \/ r.list = <<>>

\* The report of _analyze_website_content: the scored page, or the default
\* WebsiteReport with relevance_score 0 when there is no matching tool call.
Analyzed(url, r) ==
    IF r.kind = "ok"
    THEN [url |-> url, relevance_score |-> r.score]
    ELSE [url |-> url, relevance_score |-> 0]

\* The for loop of research() reading the subcomponents from the last one.
CurrentReversed(subs, i) == subs[Len(subs) + 1 - i]

\* for subcomponent in subcomponents: the element of the i-th pass.
Current(subs, i) == subs[i]

\* The evidence list kept across calls: a call starts with the reports of
\* the call before it.
InitialReportsShared(rs) == IF rs = <<>> THEN <<>> ELSE rs[Len(rs)]

\* all_reports = [] at the start of _research_subcomponent; rs are the
\* results of the calls before it, which it does not read.
InitialReports(rs) == <<>>

\* The generation prompt written without the knowledge gaps.
GenPromptNoGaps(subquery, gaps, history) ==
    [subquery |-> subquery, knowledge_gaps |-> <<>>, search_history |-> history]

\* The user message of the query-generation call: the subquery, the
\* knowledge gaps and the previous searches.
GenPrompt(subquery, gaps, history) ==
    [subquery |-> subquery, knowledge_gaps |-> gaps, search_history |-> history]

\* _crawl_website without its try: the crawler's exception leaves it.
CrawledUnguarded(c) ==
    IF c = "page" THEN "page" ELSE IF c = "error" THEN "raise" ELSE "none"

\* _crawl_website followed by "if content": the page text, or nothing after
\* an exception, a missing result or an empty text.
Crawled(c) == IF c = "page" THEN "page" ELSE "none"

\* The first tool call of the assessment response is create_final_report.
IsVerdict(r) == r.kind = "ok"

\* The sufficiency test with its break left out.
SufficientIgnored(r) == FALSE

\* if args.get("has_sufficient_info", False): break
Sufficient(r) == r.sufficient

\* loop_count += 1 placed before the sufficiency test and its break.
CountAtBreakIncremented(lc) == lc + 1

\* The break at has_sufficient_info comes before loop_count += 1: the count
\* is the one the pass started with.
CountAtBreak(lc) == lc

\* The knowledge gaps merged with, in place of replaced by, the missing info.
GapsMerged(old, r) == old \o (IF r.has_missing THEN r.missing ELSE <<>>)

\* knowledge_gaps = args.get("missing_info", [])
GapsAfter(old, r) == IF r.has_missing THEN r.missing ELSE <<>>

\* A _generate_* method without its try: the exception of the call leaves it.
SynthTextUnguarded(o, text) == IF o = "ok" THEN text ELSE "raise"

\* A _generate_* method: the text of the call, or the fallback text built in
\* its except branch.
SynthText(o, text) == IF o = "ok" THEN text ELSE "fallback"

\* _save_report followed by a return whatever the write did.
SavedIgnoringFailure(o) == "ok"

\* self._save_report(research_report): it returns, or its exception leaves
\* research().
Saved(o) == o

(***************************************************************************)
(* Outcomes of the external calls.                                         *)
(***************************************************************************)
\* _call_openai_with_tools for the decomposition.  The subcomponent strings
\* are interchangeable, so the lists are taken up to renaming: the first
\* string is "a".
DecomposeResponses ==
    {[kind |-> k, has_key |-> FALSE, list |-> <<>>] :
        k \in {"raise", "no_tool", "other_tool", "ok"}}
    \cup {[kind |-> "ok", has_key |-> TRUE, list |-> l] :
            l \in {x \in SeqsUpTo(Subtopics, MaxSubtopics) : x = <<>> \/ x[1] = "a"}}

\* _call_openai_with_tools for the query generation.
GenResponses ==
    {[kind |-> k, queries |-> <<>>] : k \in {"raise", "no_tool", "other_tool"}}
    \cup {[kind |-> "ok", queries |-> qs] : qs \in SeqsUpTo(Queries, MaxSearches)}

\* search() of googlesearch, then _scrape_google_serp when it raised.  The
\* URLs, like the query strings, are interchangeable: the first one a run
\* meets is "u1" (and "q1"), which Search and Generate require.
\* primary is what search() does, secondary what requests.get does if it is
\* called, list the links of the path that answers.
SearchOutcomes ==
    {[primary |-> p, secondary |-> "ok", list |-> l] :
        p \in {"ok", "raise"}, l \in SeqsUpTo(Urls, search_results_per_query)}
    \cup {[primary |-> "ok", secondary |-> "request_exception", list |-> l] :
            l \in SeqsUpTo(Urls, search_results_per_query)}
    \cup {[primary |-> "raise", secondary |-> "request_exception", list |-> <<>>]}

\* _scrape_google_serp without its try: the exception of requests leaves it.
ScrapeGoogleSerpUnguarded(o) ==
    IF o.secondary = "ok"
    THEN [fallback |-> "used", list |-> o.list]
    ELSE [fallback |-> "raise", list |-> <<>>]

\* _scrape_google_serp: the links of the page, or [] after a
\* requests.RequestException.
ScrapeGoogleSerp(o) ==
    IF o.secondary = "ok"
    THEN [fallback |-> "used", list |-> o.list]
    ELSE [fallback |-> "failed", list |-> <<>>]

\* _google_search: the URLs of search(), or, when search() raised, what
\* _scrape_google_serp returns.
GoogleSearch(o) ==
    IF o.primary = "ok"
    THEN [fallback |-> "unused", list |-> o.list]
    ELSE ScrapeGoogleSerp(o)

\* _crawl_website: the page text, None after an exception, or no text.
CrawlOutcomes == {"page", "error", "empty"}

\* client.chat.completions.create inside the try of a _generate_* method.
SynthOutcomes == {"ok", "raise"}

\* open() / write() of _save_report.
SaveOutcomes == {"ok", "raise"}

\* _call_openai_with_tools for the relevance analysis.
AnalyzeResponses ==
    {[kind |-> k, score |-> 0] :
        k \in {"raise", "no_tool", "other_tool", "missing_field"}}
    \cup {[kind |-> "ok", score |-> s] : s \in Scores}

\* _call_openai_with_tools for the sufficiency assessment.
AssessResponses ==
    {[kind |-> k, sufficient |-> FALSE, has_missing |-> FALSE, missing |-> <<>>] :
        k \in {"raise", "no_tool", "other_tool"}}
    \cup {[kind |-> "ok", sufficient |-> TRUE, has_missing |-> FALSE, missing |-> <<>>],
          [kind |-> "ok", sufficient |-> FALSE, has_missing |-> FALSE, missing |-> <<>>]}
    \cup {[kind |-> "ok", sufficient |-> FALSE, has_missing |-> TRUE, missing |-> m] :
            m \in MissingInfos}

(***************************************************************************)
(* State.                                                                  *)
(***************************************************************************)
VARIABLES
    pc,                   \* position in research() / _research_subcomponent()
    raised_by,            \* the call whose exception left research(), or ""
    max_loops,            \* self.max_loops
    subcomponents,        \* research: subcomponents
    idx,                  \* research: position of the for loop over subcomponents
    all_findings,         \* research: all_findings (dict)
    subcomponent_reports, \* research: subcomponent_reports (dict)
    executive_summary,    \* research: executive_summary ("" before it is built)
    conclusion,           \* research: conclusion ("" before it is built)
    final_report,         \* research: final_report_parts joined
    sources,              \* research_report.sources
    loop_count,           \* _research_subcomponent: loop_count
    all_reports,          \* _research_subcomponent: all_reports
    knowledge_gaps,       \* _research_subcomponent: knowledge_gaps
    search_history,       \* _research_subcomponent: search_history
    search_queries,       \* _research_subcomponent: search_queries
    qi,                   \* position of the for loop over search_queries
    urls,                 \* _research_subcomponent: urls
    ui,                   \* position of the for loop over urls[:3]
    prompt,               \* the user message of the last generation call, this pass
    assessment,           \* history: the answer of the assessment just made
    saved,                \* history: how the save step ended
    searched,             \* history: the paths taken by the search just made
    started,              \* history: the subcomponents whose loops have started
    decomposition,        \* history: how the decomposition call ended
    passes,               \* history: passes through the while body, this loop
    search_calls,         \* history: queries given to _google_search, this loop
    results,              \* history: result["reports"] of every finished loop
    synth_calls,          \* history: subcomponent positions given to section synthesis
    searches,             \* history: queries generated in this run
    crawls                \* history: pages crawled in this run

researchVars == <<subcomponents, idx, all_findings, subcomponent_reports,
                  executive_summary, conclusion, final_report, sources>>
loopVars == <<loop_count, all_reports, knowledge_gaps, search_history>>
iterVars == <<search_queries, qi, urls, ui>>
histVars == <<decomposition, passes, search_calls, results, synth_calls, searches, crawls>>
callVars == <<prompt, assessment>>
orderVars == <<saved, started, searched>>
vars == <<pc, raised_by, max_loops, researchVars, loopVars, iterVars, histVars,
          callVars, orderVars>>

\* No generation prompt, no assessment answer, no search just made.
NoSearch == [primary |-> "none", fallback |-> "none"]
NoPrompt == <<>>
NoAssessment == [verdict |-> "none", missing |-> <<>>]

\* What an assessment response says: sufficient, insufficient with the
\* missing info it names, or no verdict.
Assessment(r) ==
    IF r.kind \in {"no_tool", "other_tool"}
    THEN [verdict |-> "no_verdict", missing |-> <<>>]
    ELSE IF r.sufficient
         THEN [verdict |-> "sufficient", missing |-> <<>>]
         ELSE [verdict |-> "insufficient",
               missing |-> IF r.has_missing THEN r.missing ELSE <<>>]

Init ==
    /\ pc = "decompose"
    /\ raised_by = ""
    /\ max_loops \in 0..MaxMaxLoops
    /\ subcomponents = <<>>
    /\ idx = 0
    /\ all_findings = <<>>
    /\ subcomponent_reports = <<>>
    /\ executive_summary = ""
    /\ conclusion = ""
    /\ final_report = <<>>
    /\ sources = <<>>
    /\ loop_count = 0
    /\ all_reports = <<>>
    /\ knowledge_gaps = <<>>
    /\ search_history = <<>>
    /\ search_queries = <<>>
    /\ qi = 0
    /\ urls = <<>>
    /\ ui = 0
    /\ prompt = NoPrompt
    /\ assessment = NoAssessment
    /\ saved = "none"
    /\ searched = NoSearch
    /\ started = <<>>
    /\ decomposition = "none"
    /\ passes = 0
    /\ search_calls = <<>>
    /\ results = <<>>
    /\ synth_calls = <<>>
    /\ searches = 0
    /\ crawls = 0

\* The locals of _research_subcomponent are gone: the call has returned, or
\* an exception has unwound its frame.
FrameGone ==
    /\ loop_count' = 0
    /\ knowledge_gaps' = <<>>
    /\ search_history' = <<>>
    /\ search_queries' = <<>>
    /\ qi' = 0
    /\ urls' = <<>>
    /\ ui' = 0
    /\ passes' = 0
    /\ search_calls' = <<>>

\* An exception that no handler of research() catches.
Raise(call) ==
    /\ pc' = "raised"
    /\ raised_by' = call
    /\ all_reports' = <<>>
    /\ prompt' = NoPrompt
    /\ assessment' = NoAssessment
    /\ FrameGone

(***************************************************************************)
(* research(): the decomposition call.                                     *)
(***************************************************************************)
Decompose ==
    /\ pc = "decompose"
    /\ \E r \in DecomposeResponses :
        /\ decomposition' = IF NoSubcomponents(r) THEN "failed" ELSE "list"
        /\ IF r.kind = "raise"
           THEN /\ Raise("decompose")
                /\ UNCHANGED <<subcomponents, idx>>
           ELSE /\ subcomponents' = Decomposed(r)
                /\ idx' = 1
                /\ pc' = "for_subcomponent"
                /\ UNCHANGED raised_by
    /\ UNCHANGED <<max_loops, all_findings, subcomponent_reports, executive_summary,
                   conclusion, final_report, sources, loopVars, iterVars, passes,
                   search_calls, results, synth_calls, searches, crawls, callVars,
                   orderVars>>

\* for subcomponent in subcomponents: the call of _research_subcomponent,
\* whose locals start empty and whose loop_count defaults to 0.
StartSubcomponent ==
    /\ pc = "for_subcomponent"
    /\ idx <= Len(subcomponents)
    /\ started' = Append(started, Current(subcomponents, idx))
    /\ loop_count' = 0
    /\ all_reports' = InitialReports(results)
    /\ knowledge_gaps' = <<>>
    /\ search_history' = <<>>
    /\ passes' = 0
    /\ search_calls' = <<>>
    /\ pc' = "while"
    /\ UNCHANGED <<raised_by, max_loops, researchVars, iterVars, decomposition,
                   results, synth_calls, searches, crawls, callVars, saved,
                   searched>>

\* The for loop over subcomponents is exhausted.
EndSubcomponents ==
    /\ pc = "for_subcomponent"
    /\ idx > Len(subcomponents)
    /\ pc' = "summary"
    /\ UNCHANGED <<raised_by, max_loops, researchVars, loopVars, iterVars, histVars,
                   callVars, orderVars>>

(***************************************************************************)
(* _research_subcomponent(): one pass of the while loop.                   *)
(***************************************************************************)
\* The while test holds: the query-generation call and what follows it up to
\* search_history.extend(search_queries).
Generate ==
    /\ pc = "while"
    /\ WhileCond(loop_count, max_loops)
    /\ \E r \in GenResponses :
        CASE r.kind = "raise" ->
                /\ Raise("generate")
                /\ UNCHANGED searches
          [] r.kind \in {"no_tool", "other_tool"} ->
                /\ pc' = "loop_return"
                /\ passes' = passes + 1
                /\ prompt' = <<GenPrompt(Current(subcomponents, idx), knowledge_gaps,
                                         search_history)>>
                /\ assessment' = NoAssessment
                /\ UNCHANGED <<raised_by, loopVars, iterVars, search_calls, searches>>
          [] OTHER ->
                /\ prompt' = <<GenPrompt(Current(subcomponents, idx), knowledge_gaps,
                                         search_history)>>
                /\ assessment' = NoAssessment
                /\ (searches = 0 /\ r.queries # <<>>) => r.queries[1] = "q1"
                /\ Len(r.queries) <= MaxSearches - searches
                /\ searches' = searches + Len(r.queries)
                /\ search_queries' = r.queries
                /\ search_history' = search_history \o r.queries
                /\ qi' = 1
                /\ pc' = "for_query"
                /\ passes' = passes + 1
                /\ UNCHANGED <<raised_by, loop_count, all_reports, knowledge_gaps,
                               urls, ui, search_calls>>
    /\ UNCHANGED <<max_loops, researchVars, decomposition, results, synth_calls,
                   crawls, orderVars>>

\* The while test fails.
LoopExit ==
    /\ pc = "while"
    /\ ~WhileCond(loop_count, max_loops)
    /\ pc' = "loop_return"
    /\ UNCHANGED <<raised_by, max_loops, researchVars, loopVars, iterVars, histVars,
                   callVars, orderVars>>

\* for search_query in search_queries: urls = self._google_search(search_query)
Search ==
    /\ pc = "for_query"
    /\ qi <= Len(search_queries)
    /\ \E o \in SearchOutcomes :
        LET found == GoogleSearch(o) IN
        IF found.fallback = "raise"
        THEN /\ Raise("search")
             /\ searched' = NoSearch
        ELSE /\ (crawls = 0 /\ found.list # <<>>) => found.list[1] = "u1"
             /\ Len(TopUrls(found.list)) <= MaxCrawls - crawls
             /\ urls' = found.list
             /\ ui' = 1
             /\ search_calls' = Append(search_calls, search_queries[qi])
             /\ searched' = [primary |-> o.primary, fallback |-> found.fallback]
             /\ pc' = "for_url"
             /\ UNCHANGED <<raised_by, loopVars, search_queries, qi, passes,
                            callVars>>
    /\ UNCHANGED <<max_loops, researchVars, decomposition, results, synth_calls,
                   searches, crawls, saved, started>>

\* The for loop over search_queries is exhausted.
CollectDone ==
    /\ pc = "for_query"
    /\ qi > Len(search_queries)
    /\ pc' = "assess"
    /\ UNCHANGED <<raised_by, max_loops, researchVars, loopVars, iterVars, histVars,
                   callVars, orderVars>>

\* for url in urls[:3]: content = await self._crawl_website(url); if content:
Crawl ==
    /\ pc = "for_url"
    /\ ui <= Len(TopUrls(urls))
    /\ crawls' = crawls + 1
    /\ \E c \in CrawlOutcomes :
        CASE Crawled(c) = "page" ->
                /\ pc' = "analyze"
                /\ UNCHANGED <<raised_by, loopVars, iterVars, passes, search_calls,
                               callVars>>
          [] Crawled(c) = "none" ->
                /\ pc' = "for_url"
                /\ ui' = ui + 1
                /\ UNCHANGED <<raised_by, loopVars, search_queries, qi, urls, passes,
                               search_calls, callVars>>
          [] OTHER ->
                Raise("crawl")
    /\ searched' = NoSearch
    /\ UNCHANGED <<max_loops, researchVars, decomposition, results, synth_calls,
                   searches, saved, started>>

\* The for loop over urls[:3] is exhausted: the next search query.
NextQuery ==
    /\ pc = "for_url"
    /\ ui > Len(TopUrls(urls))
    /\ qi' = qi + 1
    /\ urls' = <<>>
    /\ ui' = 0
    /\ pc' = "for_query"
    /\ searched' = NoSearch
    /\ UNCHANGED <<raised_by, max_loops, researchVars, loopVars, search_queries,
                   histVars, callVars, saved, started>>

\* An appended report, with (history) the position of the loop that
\* appended it.
Accepted(report, i) ==
    [url |-> report.url, relevance_score |-> report.relevance_score, by |-> i]

\* The report put in front of the list.
Prepended(reports, r) == <<r>> \o reports

\* all_reports.append(report)
Appended(reports, r) == Append(reports, r)

\* report = await self._analyze_website_content(url, content, subquery)
\* if report.relevance_score > 0.3: all_reports.append(report)
Analyze ==
    /\ pc = "analyze"
    /\ \E r \in AnalyzeResponses :
        IF r.kind \in {"raise", "missing_field"}
        THEN Raise("analyze")
        ELSE LET report == Analyzed(TopUrls(urls)[ui], r) IN
             /\ all_reports' = IF Admit(report.relevance_score)
                               THEN Appended(all_reports, Accepted(report, idx))
                               ELSE all_reports
             /\ ui' = ui + 1
             /\ pc' = "for_url"
             /\ UNCHANGED <<raised_by, loop_count, knowledge_gaps, search_history,
                            search_queries, qi, urls, passes, search_calls, callVars>>
    /\ UNCHANGED <<max_loops, researchVars, decomposition, results, synth_calls,
                   searches, crawls, orderVars>>

\* The sufficiency call and what follows it up to the end of the while body.
Assess ==
    /\ pc = "assess"
    /\ \E r \in AssessResponses :
        CASE r.kind = "raise" ->
                Raise("assess")
          [] IsVerdict(r) /\ Sufficient(r) ->
                /\ pc' = "loop_return"
                /\ loop_count' = CountAtBreak(loop_count)
                /\ prompt' = NoPrompt
                /\ assessment' = Assessment(r)
                /\ UNCHANGED <<raised_by, all_reports, knowledge_gaps, search_history,
                               iterVars, passes, search_calls>>
          [] IsVerdict(r) /\ ~Sufficient(r) ->
                /\ knowledge_gaps' = GapsAfter(knowledge_gaps, r)
                /\ loop_count' = loop_count + 1
                /\ pc' = "while"
                /\ prompt' = NoPrompt
                /\ assessment' = Assessment(r)
                /\ UNCHANGED <<raised_by, all_reports, search_history, iterVars,
                               passes, search_calls>>
          [] OTHER ->
                /\ loop_count' = loop_count + 1
                /\ pc' = "while"
                /\ prompt' = NoPrompt
                /\ assessment' = Assessment(r)
                /\ UNCHANGED <<raised_by, all_reports, knowledge_gaps, search_history,
                               iterVars, passes, search_calls>>
    /\ UNCHANGED <<max_loops, researchVars, decomposition, results, synth_calls,
                   searches, crawls, orderVars>>

(***************************************************************************)
(* research(): the result of one subcomponent.                             *)
(***************************************************************************)
\* return {...}; all_findings[subcomponent] = result["reports"].  The other
\* locals of the finished call are gone.
LoopReturn ==
    /\ pc = "loop_return"
    /\ all_findings' = DictSet(all_findings, Current(subcomponents, idx), all_reports)
    /\ results' = Append(results, all_reports)
    /\ FrameGone
    /\ prompt' = NoPrompt
    /\ assessment' = NoAssessment
    /\ pc' = "section"
    /\ UNCHANGED <<raised_by, max_loops, subcomponents, idx, subcomponent_reports,
                   executive_summary, conclusion, final_report, sources, all_reports,
                   decomposition, synth_calls, searches, crawls, orderVars>>

\* if result["reports"]: _generate_subcomponent_report(...) else the fixed text.
Section ==
    /\ pc = "section"
    /\ \E o \in SynthOutcomes :
        LET text == IF all_reports # <<>>
                    THEN SynthText(o, "synth")
                    ELSE "placeholder"
        IN  IF text = "raise"
            THEN /\ Raise("section")
                 /\ UNCHANGED <<idx, subcomponent_reports, synth_calls>>
            ELSE /\ synth_calls' = IF all_reports # <<>>
                                   THEN Append(synth_calls, idx)
                                   ELSE synth_calls
                 /\ subcomponent_reports' =
                        DictSet(subcomponent_reports, Current(subcomponents, idx), text)
                 /\ all_reports' = <<>>
                 /\ idx' = idx + 1
                 /\ pc' = "for_subcomponent"
                 /\ UNCHANGED <<raised_by, loop_count, knowledge_gaps, search_history,
                                iterVars, passes, search_calls, callVars>>
    /\ UNCHANGED <<max_loops, subcomponents, all_findings, executive_summary,
                   conclusion, final_report, sources, decomposition, results,
                   searches, crawls, orderVars>>

(***************************************************************************)
(* research(): the assembly of the report.                                 *)
(***************************************************************************)
\* _generate_executive_summary: the model's text, or the fallback text.
Summary ==
    /\ pc = "summary"
    /\ \E o \in SynthOutcomes :
        LET text == SynthText(o, "llm") IN
        IF text = "raise"
        THEN /\ Raise("summary")
             /\ UNCHANGED executive_summary
        ELSE /\ executive_summary' = text
             /\ pc' = "conclusion"
             /\ UNCHANGED <<raised_by, loopVars, iterVars, passes, search_calls,
                            callVars>>
    /\ UNCHANGED <<max_loops, subcomponents, idx, all_findings, subcomponent_reports,
                   conclusion, final_report, sources, decomposition, results,
                   synth_calls, searches, crawls, orderVars>>

\* _generate_conclusion: the model's text, or the fallback text.
Conclusion ==
    /\ pc = "conclusion"
    /\ \E o \in SynthOutcomes :
        LET text == SynthText(o, "llm") IN
        IF text = "raise"
        THEN /\ Raise("conclusion")
             /\ UNCHANGED conclusion
        ELSE /\ conclusion' = text
             /\ pc' = "assemble"
             /\ UNCHANGED <<raised_by, loopVars, iterVars, passes, search_calls,
                            callVars>>
    /\ UNCHANGED <<max_loops, subcomponents, idx, all_findings, subcomponent_reports,
                   executive_summary, final_report, sources, decomposition, results,
                   synth_calls, searches, crawls, orderVars>>

Part(kind, name, body) == [kind |-> kind, name |-> name, body |-> body]

\* for subcomponent, report in subcomponent_reports.items(): heading, report
SectionParts(d) == [i \in DOMAIN d |-> Part("section", d[i].key, d[i].val)]

\* final_report_parts
ReportParts(summary, d, concl) ==
    <<Part("title", "", ""), Part("summary", "", summary), Part("heading", "", "")>>
    \o SectionParts(d)
    \o <<Part("conclusion", "", concl)>>

\* all_sources: the urls of all_findings.values()
AllSources(findings) ==
    Flatten([i \in DOMAIN findings |-> UrlsOf(findings[i].val)])

\* sources=list(set(all_sources))
Sources(findings) == ListOfSet(AllSources(findings))

\* final_report = "".join(final_report_parts); research_report = ResearchReport(...)
Assemble ==
    /\ pc = "assemble"
    /\ final_report' = ReportParts(executive_summary, subcomponent_reports, conclusion)
    /\ sources' \in Sources(all_findings)
    /\ pc' = "save"
    /\ UNCHANGED <<raised_by, max_loops, subcomponents, idx, all_findings,
                   subcomponent_reports, executive_summary, conclusion,
                   loopVars, iterVars, histVars, callVars, orderVars>>

\* self._save_report(research_report); return research_report
Save ==
    /\ pc = "save"
    /\ \E o \in SaveOutcomes :
        /\ saved' = o
        /\ IF Saved(o) = "ok"
           THEN /\ pc' = "returned"
                /\ UNCHANGED <<raised_by, loopVars, iterVars, passes, search_calls,
                               callVars>>
           ELSE Raise("save")
    /\ UNCHANGED <<max_loops, researchVars, decomposition, results, synth_calls,
                   searches, crawls, started, searched>>

Next ==
    \/ Decompose
    \/ StartSubcomponent
    \/ EndSubcomponents
    \/ Generate
    \/ LoopExit
    \/ Search
    \/ CollectDone
    \/ Crawl
    \/ NextQuery
    \/ Analyze
    \/ Assess
    \/ LoopReturn
    \/ Section
    \/ Summary
    \/ Conclusion
    \/ Assemble
    \/ Save

Spec == Init /\ [][Next]_vars

\* research() is one coroutine that runs to its end: a step that can be
\* taken is taken.
FairSpec == Spec /\ WF_vars(Next)
(***************************************************************************)
(* Properties.                                                             *)
(***************************************************************************)
\* Positions inside _research_subcomponent, before its return statement.
LoopRunning == pc \in {"while", "for_query", "for_url", "analyze", "assess"}

\* The call of _research_subcomponent has ended: it is at its return
\* statement, or an exception has left it.
LoopEnded == pc \in {"loop_return", "raised"}

\* The section parts of the report text, in order.
SectionsOf(report) == SelectSeq(report, LAMBDA p : p.kind = "section")

\* The report exists: research() has built it (and saved or returned it).
ReportBuilt == pc \in {"save", "returned"}

\* C1: whatever the external calls answer, a subcomponent loop that has
\* started ends (at its return statement, or by an exception of a call), and
\* it never makes more than max_loops + 1 passes through its while body.
C1_LoopTerminates ==
    /\ [](passes <= max_loops + 1)
    /\ (LoopRunning ~> LoopEnded)

\* C1 witness: a loop that made max_loops > 1 passes is at its return.
C1_Witness == pc = "loop_return" /\ max_loops > 1 /\ passes = max_loops

\* C2: loop_count never exceeds max_loops, the returned value included.
C2_IterationBounded == loop_count <= max_loops

\* C2 witness: the loop returns with loop_count equal to max_loops > 0.
C2_Witness == pc = "loop_return" /\ max_loops > 0 /\ loop_count = max_loops

\* C3: every accepted report, in the running loop, in the result of a
\* finished loop and in all_findings, has a relevance score above 0.3.
C3_AcceptedAboveThreshold ==
    /\ \A i \in DOMAIN all_reports : all_reports[i].relevance_score > Threshold
    /\ \A k \in DOMAIN results : \A i \in DOMAIN results[k] :
            results[k][i].relevance_score > Threshold
    /\ \A k \in DOMAIN all_findings : \A i \in DOMAIN all_findings[k].val :
            all_findings[k].val[i].relevance_score > Threshold

\* C3 witness: a loop holds an accepted report after a page that was crawled
\* was not accepted, and a finished loop handed accepted reports to research().
C3_Witness ==
    /\ pc = "for_url"
    /\ all_reports # <<>>
    /\ crawls > Len(all_reports) + SumLen(results)
    /\ \E k \in DOMAIN all_findings : all_findings[k].val # <<>>

\* C4: the accepted reports of a subcomponent hold no URL twice.
C4_NoDuplicateUrl == NoDup(UrlsOf(all_reports))

\* The queries issued by this loop before its current batch.
PriorHistory == SubSeq(search_history, 1, Len(search_history) - Len(search_queries))

\* C5: inside one loop the issued queries only grow, no query string is
\* given to the search twice, and a pass whose queries were all issued
\* before adds no report.
C5_NoQueryReissued ==
    [][/\ (LoopRunning /\ LoopRunning') =>
              Range(search_history) \subseteq Range(search_history')
       /\ (Len(search_calls') > Len(search_calls)) => NoDup(search_calls')
       /\ (LoopRunning' /\ Len(all_reports') > Len(all_reports)) =>
              \E j \in DOMAIN search_queries :
                  search_queries[j] \notin Range(PriorHistory)]_vars

\* C6: the report has one section per entry of subcomponents, in that order.
C6_SectionPerSubtopic ==
    ReportBuilt =>
        [i \in DOMAIN SectionsOf(final_report) |-> SectionsOf(final_report)[i].name]
            = subcomponents

\* The URLs of every report accepted by a finished loop.
AcceptedUrls == UNION {Range(UrlsOf(results[k])) : k \in DOMAIN results}

\* C7: sources of a returned report has no duplicate, is the union of the
\* URLs accepted by all subcomponent loops, and is no longer than the number
\* of accepted reports.
C7_SourcesAreUnion ==
    pc = "returned" =>
        /\ NoDup(sources)
        /\ Range(sources) = AcceptedUrls
        /\ Len(sources) <= SumLen(results)

\* The section text of the report for a subcomponent string.
SectionBody(name) ==
    LET secs == SectionsOf(final_report) IN
    {secs[i].body : i \in {j \in DOMAIN secs : secs[j].name = name}}

\* C8: a subcomponent whose loop ended without accepted reports has the fixed
\* placeholder as its section and no synthesis call; one with accepted reports
\* has a synthesized or fallback section; every subcomponent has a section.
C8_PlaceholderForEmpty ==
    ReportBuilt =>
        \A i \in DOMAIN subcomponents :
            /\ SectionBody(subcomponents[i]) # {}
            /\ results[i] = <<>> =>
                  /\ SectionBody(subcomponents[i]) = {"placeholder"}
                  /\ i \notin Range(synth_calls)
            /\ results[i] # <<>> =>
                  /\ SectionBody(subcomponents[i]) \subseteq {"synth", "fallback"}
                  /\ i \in Range(synth_calls)

\* The decomposition failed or gave no subcomponent.
DecompositionFailed == decomposition = "failed"

\* C9: after a failed or empty decomposition research() goes on with the
\* subcomponents [query]; the subcomponents it uses are never empty.
C9_FallbackToQuery ==
    pc # "decompose" =>
        /\ DecompositionFailed =>
              (raised_by # "decompose" /\ subcomponents = <<Query>>)
        /\ subcomponents # <<>>

\* C10: research() returns its report whatever the external calls do; only a
\* failure of the save step makes it raise.
C10_ReportUnlessSaveFails == pc = "raised" => raised_by = "save"

\* C11: an exception of the query-generation call or of the sufficiency call
\* does not leave the subcomponent loop: research() is never ended by one.
C11_CallErrorsStayInLoop == raised_by \notin {"generate", "assess"}

\* A generation call has just answered with nothing to search for: no tool
\* call, another tool, or an empty list of queries.
NoQueriesGenerated ==
    /\ pc = "while"
    /\ passes' = passes + 1
    /\ search_history' = search_history

\* C12: a generation call that gives no query takes the loop straight to its
\* return statement with loop_count as it was; the sufficiency call is never
\* reached in a pass without queries.
C12_NoQueriesEndsLoop ==
    [][/\ NoQueriesGenerated => (pc' = "loop_return" /\ loop_count' = loop_count)
       /\ (pc' = "assess") => (search_queries' # <<>>)]_vars

\* C13: when the sufficiency call answers has_sufficient_info = true the loop
\* is at its return statement at once with the reports it held, and its next
\* step returns exactly those reports: no call is made in between.
C13_SufficientEndsLoop ==
    [][/\ (pc = "assess" /\ assessment'.verdict = "sufficient") =>
              (pc' = "loop_return" /\ all_reports' = all_reports)
       /\ (assessment.verdict = "sufficient") =>
              /\ pc = "loop_return"
              /\ pc' = "section"
              /\ results' = Append(results, all_reports)
              /\ crawls' = crawls
              /\ searches' = searches]_vars

\* A loop that a sufficient verdict ended before its bound, with evidence.
C13_Witness ==
    /\ pc = "loop_return"
    /\ assessment.verdict = "sufficient"
    /\ loop_count < max_loops
    /\ all_reports # <<>>

\* C14: an insufficient verdict sets knowledge_gaps to the missing info it
\* returned and adds one to loop_count; then the loop ends by its bound
\* exactly when loop_count has reached max_loops, and otherwise the next
\* generation call is given exactly those gaps.
C14_InsufficientCountsOnce ==
    [][/\ (pc = "assess" /\ assessment'.verdict = "insufficient") =>
              /\ knowledge_gaps' = assessment'.missing
              /\ loop_count' = loop_count + 1
              /\ pc' = "while"
       /\ (pc = "while" /\ assessment.verdict = "insufficient") =>
              IF loop_count >= max_loops
              THEN pc' = "loop_return" /\ passes' = passes
              ELSE /\ passes' # passes
                   /\ pc' # "raised" =>
                         /\ prompt' # NoPrompt
                         /\ prompt'[1].knowledge_gaps = assessment.missing]_vars

\* A second generation that was given the gaps of the first assessment.
C14_Witness ==
    /\ pc = "for_query"
    /\ passes = 2
    /\ loop_count = 1
    /\ prompt # NoPrompt
    /\ knowledge_gaps # <<>>
    /\ prompt[1].knowledge_gaps = knowledge_gaps

\* C15: a page fetch that fails (exception, or empty content) only moves on
\* to the next URL: the batch, the queries and the reports stay as they are,
\* no exception leaves the URL and query loops, and a report is added only
\* after a page was fetched.
C15_FailedFetchSkipped ==
    [][/\ (pc = "for_url" /\ crawls' = crawls + 1 /\ pc' # "analyze") =>
              /\ pc' = "for_url"
              /\ ui' = ui + 1
              /\ urls' = urls
              /\ qi' = qi
              /\ search_queries' = search_queries
              /\ all_reports' = all_reports
       /\ (pc \in {"for_url", "for_query"}) => (pc' # "raised")
       /\ (Len(all_reports') > Len(all_reports)) => (pc = "analyze")]_vars

\* The sufficiency call reached after fetches of this pass that left no report.
C15_Witness ==
    /\ pc = "assess"
    /\ passes = 1
    /\ crawls >= 2
    /\ all_reports = <<>>

\* C16: a scoring call that raises, or whose answer lacks an expected field,
\* makes only that page be skipped: research() is never ended by it.
C16_ScoringErrorsSkipPage == raised_by # "analyze"

\* The report text has its title, its summary, exactly one section for every
\* subcomponent and nothing else as a section, and its conclusion.
CompleteReport ==
    LET secs == SectionsOf(final_report) IN
    /\ final_report # <<>>
    /\ final_report[1].kind = "title"
    /\ final_report[2].kind = "summary"
    /\ final_report[2].body \in {"llm", "fallback"}
    /\ final_report[Len(final_report)].kind = "conclusion"
    /\ final_report[Len(final_report)].body \in {"llm", "fallback"}
    /\ \A name \in Range(subcomponents) :
          Cardinality({i \in DOMAIN secs : secs[i].name = name}) = 1
    /\ \A i \in DOMAIN secs :
          /\ secs[i].name \in Range(subcomponents)
          /\ secs[i].body \in {"synth", "fallback", "placeholder"}

\* C17: no failure of a section, summary or conclusion call ends research():
\* each is replaced by its fallback text, so once the loops are over the
\* assembly goes on to the save step, and the report it brings there is
\* complete.
C17_AssemblyCompletes ==
    /\ [](raised_by \notin {"section", "summary", "conclusion"})
    /\ [](pc = "save" => CompleteReport)
    /\ ((pc = "section") ~> (pc = "for_subcomponent"))
    /\ ((pc = "summary") ~> (pc = "save"))

\* The save step reached after all three kinds of synthesis call failed.
C17_Witness ==
    /\ pc = "save"
    /\ executive_summary = "fallback"
    /\ conclusion = "fallback"
    /\ \E i \in DOMAIN final_report :
          final_report[i].kind = "section" /\ final_report[i].body = "fallback"

\* C18: a failed save ends research() with the exception of the save step
\* and no report returned; a report is returned only after the save step
\* has succeeded.
C18_SaveFailureIsFatal ==
    /\ (saved = "raise") => (pc = "raised" /\ raised_by = "save")
    /\ (pc = "returned") => (saved = "ok")

\* research() ended by a failed save of a report it had built.
C18_Witness ==
    /\ saved = "raise"
    /\ pc = "raised"
    /\ final_report # <<>>

\* C19: a generation call is either the first of its loop or comes straight
\* after the assessment that ended the pass before it; the loops are started
\* one at a time in the order of the subcomponents.
C19_SequentialInOrder ==
    [][/\ (pc = "while" /\ passes' = passes + 1) =>
              \/ (passes = 0 /\ loop_count = 0 /\ assessment = NoAssessment)
              \/ /\ passes >= 1
                 /\ loop_count = passes
                 /\ assessment.verdict \in {"insufficient", "no_verdict"}
       /\ Len(started') \in {Len(started), Len(started) + 1}
       /\ started' = SubSeq(subcomponents', 1, Len(started'))
       /\ (LoopRunning' \/ pc' = "loop_return") => (Len(started') = idx')]_vars

\* The second subcomponent's loop about to make its second generation call.
C19_Witness ==
    /\ pc = "while"
    /\ started = <<"a", "b">>
    /\ passes = 1
    /\ loop_count < max_loops
    /\ assessment.verdict = "insufficient"

\* C20: a loop starts with loop_count 0 and no reports, gaps or history
\* whatever the loops before it did, and so does its first prompt; the
\* reports a loop holds, and the findings stored under a subcomponent, were
\* all appended by a loop of that subcomponent.
C20_LoopStateNotShared ==
    /\ (pc = "while" /\ passes = 0) =>
          /\ loop_count = 0
          /\ all_reports = <<>>
          /\ knowledge_gaps = <<>>
          /\ search_history = <<>>
    /\ (passes = 1 /\ prompt # NoPrompt) =>
          /\ prompt[1].knowledge_gaps = <<>>
          /\ prompt[1].search_history = <<>>
    /\ LoopRunning => \A j \in DOMAIN all_reports : all_reports[j].by = idx
    /\ \A k \in DOMAIN all_findings :
          \A j \in DOMAIN all_findings[k].val :
              subcomponents[all_findings[k].val[j].by] = all_findings[k].key

\* The second loop at its start, after a first loop that accepted reports.
C20_Witness ==
    /\ pc = "while"
    /\ passes = 0
    /\ idx = 2
    /\ results # <<>>
    /\ results[1] # <<>>

\* C21: a page fetch is of one of the first three URLs of its query's result
\* list, and its URL is neither among the reports the loop has accepted nor
\* one fetched earlier from the same result list.
C21_NoRefetch ==
    [][(pc = "for_url" /\ crawls' = crawls + 1) =>
          /\ ui <= PagesPerQuery
          /\ urls[ui] \notin Range(UrlsOf(all_reports))
          /\ urls[ui] \notin Range(SubSeq(urls, 1, ui - 1))]_vars

\* C22: a search never ends research() and never leaves the query loop: it
\* hands a URL list to the URL loop of the same query.  The scrape path is
\* taken exactly when search() raised, and a failed scrape gives the empty
\* list, after which the loop goes on to the next query.
C22_SearchToleratesFailure ==
    [][/\ (pc = "for_query" /\ qi <= Len(search_queries)) =>
              /\ pc' = "for_url"
              /\ qi' = qi
              /\ search_queries' = search_queries
              /\ searched' # NoSearch
              /\ (searched'.fallback # "unused") <=> (searched'.primary = "raise")
              /\ (searched'.fallback = "failed") => (urls' = <<>>)
       /\ (pc = "for_url" /\ urls = <<>>) =>
              (pc' = "for_query" /\ qi' = qi + 1)]_vars

\* Both search paths failed on the first of two queries.
C22_Witness ==
    /\ pc = "for_url"
    /\ searched.fallback = "failed"
    /\ urls = <<>>
    /\ qi = 1
    /\ Len(search_queries) = 2

\* The sequence a is the beginning of the sequence b.
IsPrefix(a, b) == Len(a) <= Len(b) /\ SubSeq(b, 1, Len(a)) = a

\* C23: while a loop runs, and up to its return, every step leaves
\* all_reports as the beginning of its next value; a report is added one at a
\* time, at the end, for the URL the URL loop stands at, and inside one pass
\* the query and URL positions only move forward, so the reports are in
\* query order and, inside a query, in the order of its result list; the
\* loop returns the sequence it holds.
C23_EvidenceAppendOnly ==
    [][/\ (LoopRunning /\ (LoopRunning' \/ pc' = "loop_return")) =>
              IsPrefix(all_reports, all_reports')
       /\ (LoopRunning /\ Len(all_reports') > Len(all_reports)) =>
              /\ pc = "analyze"
              /\ Len(all_reports') = Len(all_reports) + 1
              /\ all_reports'[Len(all_reports')].url = urls[ui]
              /\ ui' = ui + 1
              /\ qi' = qi
              /\ urls' = urls
              /\ passes' = passes
       /\ (LoopRunning /\ LoopRunning' /\ passes' = passes) =>
              (qi' > qi \/ (qi' = qi /\ ui' >= ui))
       /\ (pc = "loop_return") => (results' = Append(results, all_reports))]_vars

\* A second pass of a loop that holds two reports of different pages.
C23_Witness ==
    /\ pc = "for_url"
    /\ passes = 2
    /\ Len(all_reports) = 2
    /\ all_reports[1].url # all_reports[2].url

\* Why the loop is at its return statement: the assessment just made said
\* sufficient, the generation call of this pass gave no tool call for
\* queries, or the while test failed.
EndedBy ==
    IF assessment.verdict = "sufficient" THEN "sufficient"
    ELSE IF prompt # NoPrompt THEN "no_queries"
    ELSE "max_iterations"

\* C24: with max_loops >= 1 the loop_count a loop returns is max_loops exactly
\* when the while test ended it; a loop ended by a sufficient verdict or by a
\* generation without queries returns less than max_loops, namely the number
\* of passes made before the one that ended it.
C24_CountTellsBound ==
    (pc = "loop_return" /\ max_loops >= 1) =>
        /\ (loop_count = max_loops) <=> (EndedBy = "max_iterations")
        /\ (EndedBy # "max_iterations") =>
              (loop_count < max_loops /\ loop_count = passes - 1)

\* A loop ended by a sufficient verdict in its second pass.
C24_Witness ==
    /\ pc = "loop_return"
    /\ max_loops = 2
    /\ EndedBy = "sufficient"
    /\ loop_count = 1

\* C25: an assessment answer without a verdict (no tool call, or another
\* tool) adds one to loop_count and leaves knowledge_gaps as it was; inside a
\* loop knowledge_gaps changes only at an insufficient verdict, which sets it
\* to the missing info returned, the empty list when there is none, whatever
\* it held before.
C25_NoVerdictKeepsGaps ==
    [][/\ (pc = "assess" /\ assessment'.verdict = "no_verdict") =>
              /\ pc' = "while"
              /\ loop_count' = loop_count + 1
              /\ knowledge_gaps' = knowledge_gaps
       /\ (LoopRunning /\ LoopRunning' /\ knowledge_gaps' # knowledge_gaps) =>
              (pc = "assess" /\ assessment'.verdict = "insufficient")
       /\ (pc = "assess" /\ assessment'.verdict = "insufficient") =>
              (knowledge_gaps' = assessment'.missing)]_vars

\* A second assessment without verdict, the gaps of the first one kept.
C25_Witness ==
    /\ pc = "while"
    /\ loop_count = 2
    /\ assessment.verdict = "no_verdict"
    /\ knowledge_gaps # <<>>
====
